---- MODULE Spec2Model ----
(***************************************************************************)
(* State-machine model of the Agoda data pipeline (src/pg_room.py) and of  *)
(* its configuration loaders (src/config/sql_config.py,                    *)
(* src/config/config_manager.py).                                          *)
(*                                                                         *)
(* Spec     models AgodaDataPipeline: create_table, the sequential insert  *)
(*          (DataManager.insert_raw_data over DatabaseManager's single     *)
(*          connection) and the parallel insert (ThreadedDataManager over  *)
(*          ConnectionPoolManager's psycopg2 ThreadedConnectionPool and a  *)
(*          ThreadPoolExecutor).                                           *)
(* SpecOp   is one pipeline operation run to its return, from any state a  *)
(*          pipeline can be in when it is invoked; SpecOpLive adds fair    *)
(*          scheduling of the calling thread and of the workers.           *)
(* SpecDDL  is a series of create_table calls.                             *)
(* SpecCfg  models DatabaseConfigLoader and ConfigManager caching.         *)
(* SpecEnv  models DatabaseConfigLoader.get_database_config.               *)
(***************************************************************************)
EXTENDS Integers, Sequences, FiniteSets, TLC

\* ---------------------------------------------------------------- bounds
MaxRecords == 3
MaxChunkSize == 2
MaxWorkers == 2
MaxCalls == 2
MaxLoads == 3
MaxEdits == 2
MaxVersions == 2
\* pools of up to as many connections as there are workers
MaxConn == MaxWorkers

VARIABLES
    cfg,            \* the parsed config.yml values the pipeline reads
    room_list,      \* the input record list handed to every insert call
    tableExists,    \* database: the target table exists
    rows,           \* database: committed rows of the target table
    mpc,            \* position of the calling (main) thread
    op,             \* the pipeline operation in progress
    result,         \* what the operation gave its caller
    total_inserted, \* insert_raw_data_threaded's running sum
    chunks,         \* the list _chunk_data returned
    task,           \* one future per chunk: the worker's position and outcome
    pool,           \* ConnectionPoolManager._connection_pool
    sconn,          \* the connection of DatabaseManager.get_connection's scope
    calls,          \* operations started so far
    hist,           \* observations of the operation in progress (ghost)
    prev,           \* summary of the operation that returned before it (ghost)
    file,           \* what config.yml holds on disk
    db_cache,       \* DatabaseConfigLoader._config_cache
    cm_cache,       \* ConfigManager._config_cache
    cfgobs          \* object identities handed out, and what the loads did (ghost)

\* the pipeline's variables and the configuration loaders' variables
pvars == <<cfg, room_list, tableExists, rows, mpc, op, result, total_inserted,
           chunks, task, pool, sconn, calls, hist, prev>>
cvars == <<file, db_cache, cm_cache, cfgobs>>
vars == <<pvars, cvars>>

\* ---------------------------------------------------------------- helpers
Min(a, b) == IF a < b THEN a ELSE b

\* One record of the input: its position and whether the database accepts it
\* (a record violating a column constraint is not accepted).
Record(i, bad) == [id |-> i, ok |-> (i # bad)]

\* room lists of n records of which at most one (bad, 0 for none) is rejected
RoomList(n, bad) == [i \in 1..n |-> Record(i, bad)]

AllOk(chunk) == \A k \in 1..Len(chunk) : chunk[k].ok

\* the records execute_batch sends before the first one the database rejects
AcceptedPrefix(data) ==
    Cardinality({k \in 1..Len(data) : \A j \in 1..k : data[j].ok})

\* a mutation of _chunk_data that drops the trailing partial chunk
ChunkDataDropTail(data, chunk_size) ==
    [k \in 1..(Len(data) \div chunk_size) |->
        SubSeq(data, (k - 1) * chunk_size + 1, k * chunk_size)]

\* ThreadedDataManager._chunk_data:
\* [data[i:i + chunk_size] for i in range(0, len(data), chunk_size)]
ChunkData(data, chunk_size) ==
    [k \in 1..((Len(data) + chunk_size - 1) \div chunk_size) |->
        SubSeq(data, (k - 1) * chunk_size + 1, Min(k * chunk_size, Len(data)))]

\* a future as executor.submit leaves it: queued, nothing acquired
NewTask == [pc |-> "queued", held |-> FALSE, out |-> "none",
            count |-> 0, seen |-> FALSE, acq |-> 0, rel |-> 0, rb |-> 0,
            relrb |-> 0, tries |-> 0, runs |-> 0]

\* ConnectionPoolManager.__init__: no pool yet
NoPool == [created |-> FALSE, idle |-> 0, used |-> 0, closed |-> FALSE,
           built |-> 0]

\* no DatabaseManager.get_connection scope is open
NoConn == [open |-> FALSE, pending |-> 0, exc |-> FALSE, acq |-> 0, rel |-> 0,
           rb |-> 0, relrb |-> 0, tries |-> 0, connects |-> 0, commits |-> 0]

NoOp == [kind |-> "none", temp |-> FALSE]

NoHist == [fault |-> FALSE, rowsAtStart |-> 0, existedAtStart |-> FALSE,
           poolFullRaise |-> FALSE]

NoSummary ==
    [kind |-> "none", temp |-> FALSE, result |-> "none", delta |-> 0,
     fault |-> FALSE, existed |-> FALSE, poolFull |-> FALSE]

\* environment names a caller may ask for
EnvNames == {"development", "production", "staging"}

\* What a configuration holds where get_database_config looks: the database
\* section (no such key, a key without value, i.e. None, or a mapping from the
\* environments envs) and environment.current ("absent" when not set).
NoDoc == [db |-> "absent", envs |-> {}, cur |-> "absent"]
DefaultDoc == [db |-> "map", envs |-> {"development", "production"},
               cur |-> "absent"]
Docs ==
    {[db |-> d, envs |-> {}, cur |-> c] :
        d \in {"absent", "null", "map"}, c \in {"absent", "production"}}
    \cup {[db |-> "map", envs |-> e, cur |-> c] :
        e \in {{"development"}, {"development", "production"}},
        c \in {"absent", "production"}}

\* Python's None, and the dict object the k-th successful yaml.safe_load built
\* from file f (version f.ver of the configuration)
NoneObj == [id |-> 0, ver |-> 0, doc |-> NoDoc]
Obj(k, f) == [id |-> k, ver |-> f.ver, doc |-> f.doc]

ValidFile(v, d) == [kind |-> "valid", ver |-> v, doc |-> d]

\* config.yml: absent, empty, not parsable as YAML, or holding a configuration
FileStates ==
    {[kind |-> k, ver |-> 0, doc |-> NoDoc] :
        k \in {"missing", "empty", "malformed"}}
    \cup {ValidFile(v, DefaultDoc) : v \in 1..MaxVersions}

\* config.yml absent, or holding one of the configurations Docs
EnvFileStates ==
    {[kind |-> "missing", ver |-> 0, doc |-> NoDoc]}
    \cup {ValidFile(1, d) : d \in Docs}

\* no get_database_config call has ended yet
NoLookup == [env |-> "none", present |-> FALSE, out |-> "none"]

Loaders == {"db", "cm"}

\* no forced reload has returned yet
NoReload == [id |-> 0, ver |-> 0, old |-> 0, oldver |-> 0]

\* no forced reload has failed since the last one that returned
NoFailed == [hit |-> FALSE, old |-> 0, exc |-> "none"]

NoCfgObs == [nextId |-> 1, edits |-> 0, loads |-> [l \in Loaders |-> 0],
             runs |-> [l \in Loaders |-> <<>>], reload |-> NoReload,
             last |-> NoLookup, failed |-> NoFailed]

\* the pipeline before any operation
PipelineIdle ==
    /\ rows = 0
    /\ mpc = "idle"
    /\ op = NoOp
    /\ result = "none"
    /\ total_inserted = 0
    /\ chunks = <<>>
    /\ task = <<>>
    /\ sconn = NoConn
    /\ calls = 0
    /\ hist = NoHist
    /\ prev = NoSummary

\* the configuration loaders as constructed: nothing cached
LoadersNew ==
    /\ db_cache = NoneObj
    /\ cm_cache = NoneObj
    /\ cfgobs = NoCfgObs

Tasks == DOMAIN task
Running == {i \in Tasks : task[i].pc \notin {"queued", "done"}}
Finished == {i \in Tasks : task[i].pc = "done"}

\* threading_keys: the file's app.threading section, when there is one, holds
\* max_workers and chunk_size (get_threading_config supplies defaults only for
\* a missing section)
Configs ==
    [max_workers : 1..MaxWorkers, chunk_size : 1..MaxChunkSize,
     min_connections : {1}, max_connections : 1..MaxConn,
     enable_threading : BOOLEAN, threading_keys : BOOLEAN]

\* ---------------------------------------------------------------- Init
Init ==
    /\ cfg \in {c \in Configs : c.min_connections <= c.max_connections}
    /\ \E n \in 0..MaxRecords : \E bad \in 0..n : room_list = RoomList(n, bad)
    /\ tableExists \in BOOLEAN
    /\ pool = NoPool
    /\ PipelineIdle
    /\ file = ValidFile(1, DefaultDoc)
    /\ LoadersNew

\* ---------------------------------------------------------------- pipeline entry
Apis == {"create_table", "insert_data", "insert_data_single_thread",
         "insert_data_multi_thread"}

\* which manager an AgodaDataPipeline method runs
KindOf(api) ==
    CASE api = "create_table" -> "ddl"
      [] api = "insert_data" -> IF cfg.enable_threading THEN "par" ELSE "seq"
      [] api = "insert_data_single_thread" -> "seq"
      [] OTHER -> "par"

\* what the operation that has just returned did (read in a state with mpc = "done")
Summary ==
    [kind |-> op.kind, temp |-> op.temp, result |-> result,
     delta |-> rows - hist.rowsAtStart, fault |-> hist.fault,
     existed |-> hist.existedAtStart, poolFull |-> hist.poolFullRaise]

\* where an operation's table name comes from: the caller's argument, or (the
\* argument being None) config['database']['table_name'], which the file may lack
TableNames == {"given", "configured", "missing"}

\* an emptiness test that never finds the list empty
IsEmptyListNever(data) == FALSE

\* if not room_list: the first statement of insert_raw_data_threaded and of
\* insert_raw_data
IsEmptyList(data) == Len(data) = 0

\* A caller invokes one AgodaDataPipeline method.  The method resolves the table
\* name, dispatches, and runs up to the point where it first waits for the
\* database or for its workers.
Call(api, name) ==
    LET kind == KindOf(api)
        temp == (api = "insert_data_multi_thread") /\ ~cfg.enable_threading
    IN
    /\ mpc \in {"idle", "done"}
    /\ calls < MaxCalls
    /\ calls' = calls + 1
    /\ prev' = IF mpc = "done" THEN Summary ELSE prev
    /\ op' = [kind |-> kind, temp |-> temp]
    /\ hist' = [NoHist EXCEPT !.rowsAtStart = rows, !.existedAtStart = tableExists]
    /\ total_inserted' = 0
    /\ sconn' = NoConn
    /\ UNCHANGED <<cfg, room_list, tableExists, rows, cvars>>
    /\ IF name = "missing"
       THEN \* target_table is None: config_manager.get_table_name() raises KeyError
            /\ result' = "raised"
            /\ mpc' = "done"
            /\ chunks' = <<>>
            /\ task' = <<>>
            /\ pool' = pool
       ELSE IF kind \in {"seq", "par"} /\ IsEmptyList(room_list)
       THEN \* if not room_list: return True
            /\ result' = "True"
            /\ mpc' = "done"
            /\ chunks' = <<>>
            /\ task' = <<>>
            /\ pool' = IF temp THEN NoPool ELSE pool
       ELSE IF kind = "par" /\ ~cfg.threading_keys
       THEN \* threading_config['max_workers'] raises KeyError ahead of the try:
            \* insert_data_multi_thread's except turns it into False once the
            \* temporary pool is closed; the other callers let it through
            /\ result' = IF temp THEN "False" ELSE "raised"
            /\ mpc' = IF temp THEN "closepool" ELSE "done"
            /\ chunks' = <<>>
            /\ task' = <<>>
            /\ pool' = IF temp THEN NoPool ELSE pool
       ELSE IF kind = "par"
       THEN /\ result' = "none"
            /\ chunks' = ChunkData(room_list, cfg.chunk_size)
            /\ task' = [i \in DOMAIN chunks' |-> NewTask]
            /\ pool' = IF temp THEN NoPool ELSE pool
            /\ mpc' = "collect"
       ELSE /\ result' = "none"
            /\ chunks' = <<>>
            /\ task' = <<>>
            /\ pool' = pool
            /\ mpc' = "connect"

\* ---------------------------------------------------------------- workers
\* frame of a worker's step: everything but task, pool, rows, hist
WorkerFrame ==
    UNCHANGED <<cfg, room_list, tableExists, mpc, op, result, total_inserted,
                chunks, sconn, calls, prev, cvars>>

\* The future ends with an exception before any connection was obtained.
Raised(i) == [task[i] EXCEPT !.pc = "done", !.out = "exc"]

\* Start with a thread per submitted chunk: no cap on the chunks being run
StartUnbounded(i) ==
    /\ mpc \in {"collect", "shutdown"}
    /\ task[i].pc = "queued"
    /\ task' = [task EXCEPT ![i].pc = IF pool.created THEN "getconn" ELSE "lock",
                            ![i].runs = @ + 1]
    /\ UNCHANGED <<pool, rows, hist>>
    /\ WorkerFrame

\* Start on an executor whose threads end after one chunk: only the first
\* max_workers chunks are ever run
StartOnce(i) ==
    /\ mpc \in {"collect", "shutdown"}
    /\ task[i].pc = "queued"
    /\ \A j \in Tasks : j < i => task[j].pc # "queued"
    /\ Cardinality({j \in Tasks : task[j].pc # "queued"}) < cfg.max_workers
    /\ task' = [task EXCEPT ![i].pc = IF pool.created THEN "getconn" ELSE "lock",
                            ![i].runs = @ + 1]
    /\ UNCHANGED <<pool, rows, hist>>
    /\ WorkerFrame

\* A ThreadPoolExecutor worker thread takes the next queued chunk (FIFO) when
\* fewer than max_workers chunks are being run, and runs _insert_chunk up to
\* _initialize_pool's unlocked test: if self._connection_pool is None
Start(i) ==
    /\ mpc \in {"collect", "shutdown"}
    /\ task[i].pc = "queued"
    /\ \A j \in Tasks : j < i => task[j].pc # "queued"
    /\ Cardinality(Running) < cfg.max_workers
    /\ task' = [task EXCEPT ![i].pc = IF pool.created THEN "getconn" ELSE "lock",
                            ![i].runs = @ + 1]
    /\ UNCHANGED <<pool, rows, hist>>
    /\ WorkerFrame

\* _initialize_pool without the test under the lock: every worker that found
\* no pool at the first test builds one and assigns it
InitializePoolUnlocked(i, ok) ==
    /\ task[i].pc = "lock"
    /\ IF ok
       THEN /\ pool' = [created |-> TRUE, idle |-> cfg.min_connections,
                        used |-> 0, closed |-> FALSE, built |-> pool.built + 1]
            /\ task' = [task EXCEPT ![i].pc = "getconn"]
            /\ UNCHANGED hist
       ELSE /\ task' = [task EXCEPT ![i] = Raised(i)]
            /\ hist' = [hist EXCEPT !.fault = TRUE]
            /\ UNCHANGED pool
    /\ UNCHANGED rows
    /\ WorkerFrame

\* _initialize_pool under self._lock: test again, then build the pool, which
\* opens min_connections connections (ok = the database is reachable); built
\* counts the ThreadedConnectionPool objects this manager has constructed.
LockedInitializePool(i, ok) ==
    /\ task[i].pc = "lock"
    /\ IF pool.created
       THEN /\ task' = [task EXCEPT ![i].pc = "getconn"]
            /\ UNCHANGED <<pool, hist>>
       ELSE IF ok
       THEN /\ pool' = [created |-> TRUE, idle |-> cfg.min_connections,
                        used |-> 0, closed |-> FALSE, built |-> pool.built + 1]
            /\ task' = [task EXCEPT ![i].pc = "getconn"]
            /\ UNCHANGED hist
       ELSE /\ task' = [task EXCEPT ![i] = Raised(i)]
            /\ hist' = [hist EXCEPT !.fault = TRUE]
            /\ UNCHANGED pool
    /\ UNCHANGED rows
    /\ WorkerFrame

\* get_connection: conn = self._connection_pool.getconn().  psycopg2's pool
\* hands out an idle connection, else raises PoolError("connection pool
\* exhausted") when max_connections are in use, else opens a new connection.
GetConnection(i, ok) ==
    /\ task[i].pc = "getconn"
    /\ IF pool.idle > 0
       THEN /\ pool' = [pool EXCEPT !.idle = @ - 1, !.used = @ + 1]
            /\ task' = [task EXCEPT ![i].pc = "body", ![i].held = TRUE,
                                    ![i].acq = @ + 1]
            /\ UNCHANGED hist
       ELSE IF pool.used >= cfg.max_connections
       THEN /\ task' = [task EXCEPT ![i] = Raised(i)]
            /\ hist' = [hist EXCEPT !.poolFullRaise = TRUE]
            /\ UNCHANGED pool
       ELSE IF ok
       THEN /\ pool' = [pool EXCEPT !.used = @ + 1]
            /\ task' = [task EXCEPT ![i].pc = "body", ![i].held = TRUE,
                                    ![i].acq = @ + 1]
            /\ UNCHANGED hist
       ELSE /\ task' = [task EXCEPT ![i] = Raised(i)]
            /\ hist' = [hist EXCEPT !.fault = TRUE]
            /\ UNCHANGED pool
    /\ UNCHANGED rows
    /\ WorkerFrame

\* InsertChunk with a compensating cleanup: a failing chunk also removes the rows
\* the call's other chunks have committed so far
InsertChunkCompensating(i, ok) ==
    /\ task[i].pc = "body"
    /\ IF tableExists /\ AllOk(chunks[i]) /\ ok
       THEN /\ rows' = rows + Len(chunks[i])
            /\ task' = [task EXCEPT ![i].pc = "release", ![i].tries = @ + 1,
                                    ![i].out = "ok", ![i].count = Len(chunks[i])]
            /\ UNCHANGED hist
       ELSE /\ task' = [task EXCEPT ![i].pc = "release", ![i].tries = @ + 1,
                                    ![i].out = "exc",
                                    ![i].rb = @ + 2]
            /\ hist' = [hist EXCEPT !.fault = @ \/ ~ok]
            /\ rows' = hist.rowsAtStart
    /\ UNCHANGED pool
    /\ WorkerFrame

\* InsertChunk on an autocommit connection: the records a failing chunk sent
\* before the rejected one stay in the table
InsertChunkAutocommit(i, ok) ==
    /\ task[i].pc = "body"
    /\ IF tableExists /\ AllOk(chunks[i]) /\ ok
       THEN /\ rows' = rows + Len(chunks[i])
            /\ task' = [task EXCEPT ![i].pc = "release", ![i].tries = @ + 1,
                                    ![i].out = "ok", ![i].count = Len(chunks[i])]
            /\ UNCHANGED hist
       ELSE /\ task' = [task EXCEPT ![i].pc = "release", ![i].tries = @ + 1,
                                    ![i].out = "exc",
                                    ![i].rb = @ + 2]
            /\ hist' = [hist EXCEPT !.fault = @ \/ ~ok]
            /\ rows' = IF tableExists THEN rows + AcceptedPrefix(chunks[i])
                       ELSE rows
    /\ UNCHANGED pool
    /\ WorkerFrame

\* _insert_chunk's try block: execute_batch(cursor, insert_sql, chunk, page_size)
\* runs every page in the connection's open transaction, conn.commit() makes the
\* chunk's rows visible, and len(chunk) is returned.  A rejected record, a missing
\* table or a failing commit (ok = FALSE) raises: _insert_chunk's except and then
\* get_connection's except each roll the connection back and re-raise.
InsertChunk(i, ok) ==
    /\ task[i].pc = "body"
    /\ IF tableExists /\ AllOk(chunks[i]) /\ ok
       THEN /\ rows' = rows + Len(chunks[i])
            /\ task' = [task EXCEPT ![i].pc = "release", ![i].tries = @ + 1,
                                    ![i].out = "ok", ![i].count = Len(chunks[i])]
            /\ UNCHANGED hist
       ELSE /\ task' = [task EXCEPT ![i].pc = "release", ![i].tries = @ + 1,
                                    ![i].out = "exc",
                                    ![i].rb = @ + 2]
            /\ hist' = [hist EXCEPT !.fault = @ \/ ~ok]
            /\ UNCHANGED rows
    /\ UNCHANGED pool
    /\ WorkerFrame

\* ReleaseConnection with putconn in the success path only: a scope whose body
\* raised keeps its connection checked out
ReleaseOnlyOnSuccess(i) ==
    /\ task[i].pc = "release"
    /\ IF task[i].out = "ok"
       THEN /\ pool' = [pool EXCEPT !.used = @ - 1,
                          !.idle = IF @ < cfg.min_connections THEN @ + 1 ELSE @]
            /\ task' = [task EXCEPT ![i].pc = "done", ![i].held = FALSE,
                                    ![i].rel = @ + 1, ![i].relrb = task[i].rb]
       ELSE /\ task' = [task EXCEPT ![i].pc = "done"]
            /\ UNCHANGED pool
    /\ UNCHANGED <<rows, hist>>
    /\ WorkerFrame

\* get_connection's finally: self._connection_pool.putconn(conn).  The pool
\* keeps the connection idle while it holds fewer than min_connections idle
\* ones, and closes it otherwise.
ReleaseConnection(i) ==
    /\ task[i].pc = "release"
    /\ pool' = [pool EXCEPT !.used = @ - 1,
                            !.idle = IF @ < cfg.min_connections THEN @ + 1 ELSE @]
    /\ task' = [task EXCEPT ![i].pc = "done", ![i].held = FALSE,
                            ![i].rel = @ + 1, ![i].relrb = task[i].rb]
    /\ UNCHANGED <<rows, hist>>
    /\ WorkerFrame

\* ---------------------------------------------------------------- the join
MainFrame ==
    UNCHANGED <<cfg, room_list, tableExists, rows, op, chunks, sconn, calls,
                hist, prev, cvars>>

\* Collect with the failure logged and skipped (continue instead of return False)
CollectSwallow(i) ==
    /\ mpc = "collect"
    /\ task[i].pc = "done"
    /\ ~task[i].seen
    /\ task' = [task EXCEPT ![i].seen = TRUE]
    /\ total_inserted' = total_inserted + task[i].count
    /\ UNCHANGED <<mpc, result, pool>>
    /\ MainFrame

\* Collect with a failed chunk submitted again instead of returning False
CollectRetry(i) ==
    /\ mpc = "collect"
    /\ task[i].pc = "done"
    /\ ~task[i].seen
    /\ IF task[i].out = "ok"
       THEN /\ task' = [task EXCEPT ![i].seen = TRUE]
            /\ total_inserted' = total_inserted + task[i].count
       ELSE /\ task' = [task EXCEPT ![i].pc = "queued", ![i].out = "none"]
            /\ UNCHANGED total_inserted
    /\ UNCHANGED <<mpc, result, pool>>
    /\ MainFrame

\* Collect that takes the chunks' results in submission order: a chunk that
\* finished while an earlier one is still unfinished counts as a failure
CollectInOrder(i) ==
    /\ mpc = "collect"
    /\ task[i].pc = "done"
    /\ ~task[i].seen
    /\ task' = [task EXCEPT ![i].seen = TRUE]
    /\ IF task[i].out = "ok" /\ \A j \in Tasks : j < i => task[j].pc = "done"
       THEN /\ total_inserted' = total_inserted + task[i].count
            /\ UNCHANGED <<mpc, result>>
       ELSE /\ result' = "False"
            /\ mpc' = "shutdown"
            /\ UNCHANGED total_inserted
    /\ UNCHANGED pool
    /\ MainFrame

\* for future in as_completed(future_to_chunk): a finished future not yet
\* yielded is yielded; its result is added, or its exception makes the call
\* return False from inside the executor's with block.
Collect(i) ==
    /\ mpc = "collect"
    /\ task[i].pc = "done"
    /\ ~task[i].seen
    /\ task' = [task EXCEPT ![i].seen = TRUE]
    /\ IF task[i].out = "ok"
       THEN /\ total_inserted' = total_inserted + task[i].count
            /\ UNCHANGED <<mpc, result>>
       ELSE /\ result' = "False"
            /\ mpc' = "shutdown"
            /\ UNCHANGED total_inserted
    /\ UNCHANGED pool
    /\ MainFrame

\* as_completed is exhausted: every future was yielded without an exception,
\* so the call is about to return True.
CollectEnd ==
    /\ mpc = "collect"
    /\ \A i \in Tasks : task[i].seen
    /\ result' = "True"
    /\ mpc' = "shutdown"
    /\ UNCHANGED <<task, total_inserted, pool>>
    /\ MainFrame

\* Shutdown that does not join the workers (shutdown(wait=False))
ShutdownNoWait ==
    /\ mpc = "shutdown"
    /\ mpc' = IF op.temp THEN "closepool" ELSE "done"
    /\ UNCHANGED <<task, total_inserted, pool, result>>
    /\ MainFrame

\* ThreadPoolExecutor.__exit__: shutdown(wait=True) joins the workers, which
\* run every chunk still queued; then insert_raw_data_threaded returns.
Shutdown ==
    /\ mpc = "shutdown"
    /\ \A i \in Tasks : task[i].pc = "done"
    /\ mpc' = IF op.temp THEN "closepool" ELSE "done"
    /\ UNCHANGED <<task, total_inserted, pool, result>>
    /\ MainFrame

\* ClosePool that returns without closing the temporary pool
ClosePoolSkipped ==
    /\ mpc = "closepool"
    /\ mpc' = "done"
    /\ UNCHANGED <<task, total_inserted, result, pool>>
    /\ MainFrame

\* insert_data_multi_thread with threading disabled:
\* temp_connection_pool_manager.close_pool(); return result (or, in the except
\* clause, return False); close_pool closes every connection of a pool that
\* was built and does nothing otherwise.
ClosePool ==
    /\ mpc = "closepool"
    /\ pool' = IF pool.created
               THEN [pool EXCEPT !.idle = 0, !.used = 0, !.closed = TRUE]
               ELSE pool
    /\ mpc' = "done"
    /\ UNCHANGED <<task, total_inserted, result>>
    /\ MainFrame

\* ---------------------------------------------------------------- single connection
SingleFrame ==
    UNCHANGED <<cfg, room_list, op, total_inserted, chunks, task, pool, calls,
                prev, cvars>>

\* DatabaseManager.get_connection: _get_db_config() and psycopg2.connect(); a
\* failure leaves conn None, is re-raised, and the caller's except returns False.
Connect(ok) ==
    /\ mpc = "connect"
    /\ IF ok
       THEN /\ sconn' = [sconn EXCEPT !.open = TRUE, !.acq = @ + 1,
                                      !.connects = @ + 1]
            /\ mpc' = "body"
            /\ UNCHANGED <<result, hist>>
       ELSE /\ result' = "False"
            /\ mpc' = "done"
            /\ hist' = [hist EXCEPT !.fault = TRUE]
            /\ sconn' = [sconn EXCEPT !.connects = @ + 1]
    /\ UNCHANGED <<tableExists, rows>>
    /\ SingleFrame

\* ExecuteDDL with a plain CREATE TABLE: the statement fails on a table that
\* is already there
ExecuteDDLPlainCreate(ok) ==
    /\ mpc = "body"
    /\ op.kind = "ddl"
    /\ IF ok /\ ~tableExists
       THEN /\ sconn' = [sconn EXCEPT !.tries = @ + 1, !.pending = 1]
            /\ mpc' = "commit"
            /\ UNCHANGED hist
       ELSE /\ sconn' = [sconn EXCEPT !.tries = @ + 1]
            /\ mpc' = "rollback"
            /\ hist' = [hist EXCEPT !.fault = @ \/ ~ok]
    /\ UNCHANGED <<tableExists, rows, result>>
    /\ SingleFrame

\* TableManager.create_table: CREATE TABLE IF NOT EXISTS and the COMMENT ON COLUMN
\* statements, in the connection's open transaction (ok = the database runs them).
ExecuteDDL(ok) ==
    /\ mpc = "body"
    /\ op.kind = "ddl"
    /\ IF ok
       THEN /\ sconn' = [sconn EXCEPT !.tries = @ + 1, !.pending = 1]
            /\ mpc' = "commit"
            /\ UNCHANGED hist
       ELSE /\ sconn' = [sconn EXCEPT !.tries = @ + 1]
            /\ mpc' = "rollback"
            /\ hist' = [hist EXCEPT !.fault = TRUE]
    /\ UNCHANGED <<tableExists, rows, result>>
    /\ SingleFrame

\* ExecuteBatch on an autocommit connection: every accepted record is committed
\* as it is sent, so a rejected record leaves the ones before it in the table
ExecuteBatchAutocommit ==
    /\ mpc = "body"
    /\ op.kind = "seq"
    /\ IF tableExists /\ AllOk(room_list)
       THEN /\ sconn' = [sconn EXCEPT !.tries = @ + 1, !.pending = Len(room_list)]
            /\ mpc' = "commit"
            /\ UNCHANGED rows
       ELSE /\ sconn' = [sconn EXCEPT !.tries = @ + 1]
            /\ mpc' = "rollback"
            /\ rows' = IF tableExists THEN rows + AcceptedPrefix(room_list) ELSE rows
    /\ UNCHANGED <<tableExists, result, hist>>
    /\ SingleFrame

\* DataManager.insert_raw_data: execute_batch(cursor, insert_sql, room_list,
\* page_size) over the whole list, in the connection's open transaction.
ExecuteBatch ==
    /\ mpc = "body"
    /\ op.kind = "seq"
    /\ IF tableExists /\ AllOk(room_list)
       THEN /\ sconn' = [sconn EXCEPT !.tries = @ + 1, !.pending = Len(room_list)]
            /\ mpc' = "commit"
       ELSE /\ sconn' = [sconn EXCEPT !.tries = @ + 1]
            /\ mpc' = "rollback"
    /\ UNCHANGED <<tableExists, rows, result, hist>>
    /\ SingleFrame

\* conn.commit() of create_table and of insert_raw_data, then return True
\* (the scope's finally still runs: see CloseConnection).
CommitSingle(ok) ==
    /\ mpc = "commit"
    /\ IF ok
       THEN /\ tableExists' = (tableExists \/ op.kind = "ddl")
            /\ rows' = IF op.kind = "seq" THEN rows + sconn.pending ELSE rows
            /\ sconn' = [sconn EXCEPT !.pending = 0, !.commits = @ + 1]
            /\ mpc' = "close"
            /\ UNCHANGED hist
       ELSE /\ mpc' = "rollback"
            /\ hist' = [hist EXCEPT !.fault = TRUE]
            /\ UNCHANGED <<tableExists, rows, sconn>>
    /\ UNCHANGED result
    /\ SingleFrame

\* DatabaseManager.get_connection's except: conn.rollback(); raise
RollbackSingle ==
    /\ mpc = "rollback"
    /\ sconn' = [sconn EXCEPT !.pending = 0, !.rb = @ + 1, !.exc = TRUE]
    /\ mpc' = "close"
    /\ UNCHANGED <<tableExists, rows, result, hist>>
    /\ SingleFrame

\* DatabaseManager.get_connection's finally: conn.close(); then the operation
\* returns True, or its except clause turns the re-raised error into False.
CloseConnection ==
    /\ mpc = "close"
    /\ sconn' = [sconn EXCEPT !.open = FALSE, !.rel = @ + 1, !.relrb = sconn.rb]
    /\ result' = IF sconn.exc THEN "False" ELSE "True"
    /\ mpc' = "done"
    /\ UNCHANGED <<tableExists, rows, hist>>
    /\ SingleFrame

\* ---------------------------------------------------------------- specification
Next ==
    \/ \E api \in Apis, name \in TableNames : Call(api, name)
    \/ \E i \in Tasks : Start(i)
    \/ \E i \in Tasks, ok \in BOOLEAN : LockedInitializePool(i, ok)
    \/ \E i \in Tasks, ok \in BOOLEAN : GetConnection(i, ok)
    \/ \E i \in Tasks, ok \in BOOLEAN : InsertChunk(i, ok)
    \/ \E i \in Tasks : ReleaseConnection(i)
    \/ \E i \in Tasks : Collect(i)
    \/ CollectEnd
    \/ Shutdown
    \/ ClosePool
    \/ \E ok \in BOOLEAN : Connect(ok)
    \/ \E ok \in BOOLEAN : ExecuteDDL(ok)
    \/ ExecuteBatch
    \/ \E ok \in BOOLEAN : CommitSingle(ok)
    \/ RollbackSingle
    \/ CloseConnection

Spec == Init /\ [][Next]_vars

\* ---------------------------------------------------------------- one operation
\* The pool a ConnectionPoolManager holds between two operations, once an earlier
\* parallel insert has built it: min_connections idle connections, none in use.
WarmPool == [created |-> TRUE, idle |-> cfg.min_connections, used |-> 0,
             closed |-> FALSE, built |-> 1]

\* Any state a pipeline can be in when an operation is invoked: the table may
\* exist, and a pipeline in threaded mode may already hold its pool.
InitOp ==
    /\ cfg \in {c \in Configs : c.min_connections <= c.max_connections}
    /\ \E n \in 0..MaxRecords : \E bad \in 0..n : room_list = RoomList(n, bad)
    /\ tableExists \in BOOLEAN
    /\ pool \in IF cfg.enable_threading THEN {NoPool, WarmPool} ELSE {NoPool}
    /\ PipelineIdle
    /\ file = ValidFile(1, DefaultDoc)
    /\ LoadersNew

\* one operation, run to its return
NextOp ==
    \/ \E api \in Apis, name \in TableNames : calls = 0 /\ Call(api, name)
    \/ \E i \in Tasks : Start(i)
    \/ \E i \in Tasks, ok \in BOOLEAN : LockedInitializePool(i, ok)
    \/ \E i \in Tasks, ok \in BOOLEAN : GetConnection(i, ok)
    \/ \E i \in Tasks, ok \in BOOLEAN : InsertChunk(i, ok)
    \/ \E i \in Tasks : ReleaseConnection(i)
    \/ \E i \in Tasks : Collect(i)
    \/ CollectEnd
    \/ Shutdown
    \/ ClosePool
    \/ \E ok \in BOOLEAN : Connect(ok)
    \/ \E ok \in BOOLEAN : ExecuteDDL(ok)
    \/ ExecuteBatch
    \/ \E ok \in BOOLEAN : CommitSingle(ok)
    \/ RollbackSingle
    \/ CloseConnection

SpecOp == InitOp /\ [][NextOp]_vars

\* ---------------------------------------------------------------- scheduling
\* the steps of the worker thread running chunk i
Worker(i) ==
    /\ i \in Tasks
    /\ \/ Start(i)
       \/ \E ok \in BOOLEAN : LockedInitializePool(i, ok)
       \/ \E ok \in BOOLEAN : GetConnection(i, ok)
       \/ \E ok \in BOOLEAN : InsertChunk(i, ok)
       \/ ReleaseConnection(i)

\* the steps of the thread that called insert_raw_data_threaded
JoinThread ==
    \/ \E i \in Tasks : Collect(i)
    \/ CollectEnd
    \/ Shutdown
    \/ ClosePool

\* One operation with every thread of the parallel insert scheduled fairly;
\* every database call and pool acquisition is a step that returns or raises.
SpecOpLive ==
    /\ InitOp
    /\ [][NextOp]_vars
    /\ WF_vars(JoinThread)
    /\ \A i \in 1..MaxRecords : WF_vars(Worker(i))

\* ---------------------------------------------------------------- create_table
\* A pipeline about to create its table: the table may be there already, with
\* rows earlier inserts have committed.
InitDDL ==
    /\ cfg \in {c \in Configs : c.max_workers = 1 /\ c.chunk_size = 1
                                /\ c.max_connections = 1 /\ ~c.enable_threading
                                /\ c.threading_keys}
    /\ room_list = <<>>
    /\ tableExists \in BOOLEAN
    /\ rows \in IF tableExists THEN 0..MaxRecords ELSE {0}
    /\ pool = NoPool
    /\ mpc = "idle"
    /\ op = NoOp
    /\ result = "none"
    /\ total_inserted = 0
    /\ chunks = <<>>
    /\ task = <<>>
    /\ sconn = NoConn
    /\ calls = 0
    /\ hist = NoHist
    /\ prev = NoSummary
    /\ file = ValidFile(1, DefaultDoc)
    /\ LoadersNew

\* successive create_table calls
NextDDL ==
    \/ \E name \in TableNames : Call("create_table", name)
    \/ \E ok \in BOOLEAN : Connect(ok)
    \/ \E ok \in BOOLEAN : ExecuteDDL(ok)
    \/ \E ok \in BOOLEAN : CommitSingle(ok)
    \/ RollbackSingle
    \/ CloseConnection

SpecDDL == InitDDL /\ [][NextDDL]_vars

\* ---------------------------------------------------------------- configuration
\* one load as the ghost log keeps it: the object returned (0 for None, -1 when
\* the load raised), whether the file was read, whether a reload was forced
LoadEntry(ret, read, force) == [ret |-> ret, read |-> read, force |-> force]

\* A run is a maximal sequence of loads without a forced reload: a forced
\* reload starts a new one.
Logged(l, ret, read, force) ==
    [cfgobs EXCEPT !.loads[l] = @ + 1,
                   !.nextId = IF ret = cfgobs.nextId THEN @ + 1 ELSE @,
                   !.runs[l] = IF force THEN <<>>
                               ELSE Append(@, LoadEntry(ret, read, force))]

\* DatabaseConfigLoader._load_yaml_config: raises DatabaseConfigError when the
\* file does not exist (nothing is read), is empty or is not parsable; else
\* returns the dict yaml.safe_load built, a new object.
LoadYamlConfig ==
    [raised |-> file.kind # "valid", read |-> file.kind # "missing",
     exc |-> IF file.kind # "valid" THEN "DatabaseConfigError" ELSE "none",
     obj |-> IF file.kind = "valid" THEN Obj(cfgobs.nextId, file) ELSE NoneObj]

\* what a forced reload that returned object ret leaves in the ghost: the object,
\* the version config.yml held when reload was called, and the object cached
\* before (an unforced load leaves the ghost as it was)
Reloaded(obs, force, ret) ==
    IF force /\ ret > 0
    THEN [obs EXCEPT !.reload = [id |-> ret, ver |-> file.ver,
                                 old |-> db_cache.id, oldver |-> db_cache.ver],
                     !.failed = NoFailed]
    ELSE IF force
    THEN \* the forced reload raised: what was cached when it was called
         [obs EXCEPT !.failed = [hit |-> TRUE, old |-> db_cache.id,
                                 exc |-> LoadYamlConfig.exc]]
    ELSE obs

\* get_config with the cache test dropped: every call loads the file
GetConfigAlwaysLoads(force_reload) ==
    /\ cfgobs.loads["db"] < MaxLoads
    /\ LET y == LoadYamlConfig
           ret == IF y.raised THEN -1 ELSE y.obj.id
       IN  /\ db_cache' = IF y.raised THEN db_cache ELSE y.obj
           /\ cfgobs' = Reloaded(Logged("db", ret, y.read, force_reload),
                                 force_reload, ret)
    /\ UNCHANGED <<file, cm_cache, pvars>>

\* get_config with force_reload ignored: a cached configuration is always served
GetConfigIgnoresForce(force_reload) ==
    /\ cfgobs.loads["db"] < MaxLoads
    /\ IF db_cache = NoneObj
       THEN LET y == LoadYamlConfig
                ret == IF y.raised THEN -1 ELSE y.obj.id
            IN  /\ db_cache' = IF y.raised THEN db_cache ELSE y.obj
                /\ cfgobs' = Reloaded(Logged("db", ret, y.read, force_reload),
                                      force_reload, ret)
       ELSE /\ cfgobs' = Reloaded(Logged("db", db_cache.id, FALSE, force_reload),
                                  force_reload, db_cache.id)
            /\ UNCHANGED db_cache
    /\ UNCHANGED <<file, cm_cache, pvars>>

\* get_config that drops the cached configuration before a forced reload
GetConfigClearsFirst(force_reload) ==
    /\ cfgobs.loads["db"] < MaxLoads
    /\ IF db_cache = NoneObj \/ force_reload
       THEN LET y == LoadYamlConfig
                ret == IF y.raised THEN -1 ELSE y.obj.id
            IN  /\ db_cache' = IF y.raised THEN NoneObj ELSE y.obj
                /\ cfgobs' = Reloaded(Logged("db", ret, y.read, force_reload),
                                      force_reload, ret)
       ELSE /\ cfgobs' = Logged("db", db_cache.id, FALSE, force_reload)
            /\ UNCHANGED db_cache
    /\ UNCHANGED <<file, cm_cache, pvars>>

\* DatabaseConfigLoader.get_config(force_reload); reload_config() is
\* get_config(force_reload=True) on the module's loader
GetConfig(force_reload) ==
    /\ cfgobs.loads["db"] < MaxLoads
    /\ IF db_cache = NoneObj \/ force_reload
       THEN LET y == LoadYamlConfig
                ret == IF y.raised THEN -1 ELSE y.obj.id
            IN  /\ db_cache' = IF y.raised THEN db_cache ELSE y.obj
                /\ cfgobs' = Reloaded(Logged("db", ret, y.read, force_reload),
                                      force_reload, ret)
       ELSE /\ cfgobs' = Logged("db", db_cache.id, FALSE, force_reload)
            /\ UNCHANGED db_cache
    /\ UNCHANGED <<file, cm_cache, pvars>>

\* ConfigManager.load_config: open() raises FileNotFoundError, yaml.safe_load
\* raises YAMLError on a file it cannot parse and returns None for an empty
\* file, which is what is then cached and returned.
LoadConfig ==
    /\ cfgobs.loads["cm"] < MaxLoads
    /\ IF cm_cache = NoneObj
       THEN IF file.kind \in {"missing", "malformed"}
            THEN /\ cfgobs' = Logged("cm", -1, file.kind # "missing", FALSE)
                 /\ UNCHANGED cm_cache
            ELSE IF file.kind = "empty"
            THEN /\ cm_cache' = NoneObj
                 /\ cfgobs' = Logged("cm", 0, TRUE, FALSE)
            ELSE /\ cm_cache' = Obj(cfgobs.nextId, file)
                 /\ cfgobs' = Logged("cm", cfgobs.nextId, TRUE, FALSE)
       ELSE /\ cfgobs' = Logged("cm", cm_cache.id, FALSE, FALSE)
            /\ UNCHANGED cm_cache
    /\ UNCHANGED <<file, db_cache, pvars>>

\* Someone edits, empties, breaks or deletes config.yml between two loads.
EditFile(f) ==
    /\ cfgobs.edits < MaxEdits
    /\ f # file
    /\ file' = f
    /\ cfgobs' = [cfgobs EXCEPT !.edits = @ + 1]
    /\ UNCHANGED <<db_cache, cm_cache, pvars>>

InitCfg ==
    /\ cfg \in {c \in Configs : c.max_workers = 1 /\ c.chunk_size = 1
                                /\ c.max_connections = 1 /\ ~c.enable_threading
                                /\ c.threading_keys}
    /\ room_list = <<>>
    /\ tableExists = FALSE
    /\ pool = NoPool
    /\ PipelineIdle
    /\ file \in FileStates
    /\ LoadersNew

NextCfg ==
    \/ \E force_reload \in BOOLEAN : GetConfig(force_reload)
    \/ LoadConfig
    \/ \E f \in FileStates : EditFile(f)

SpecCfg == InitCfg /\ [][NextCfg]_vars

\* ---------------------------------------------------------------- environments
\* get_current_environment: config['environment']['current'], 'development'
\* when the key is missing
CurrentEnvironment(config) ==
    IF config.doc.cur = "absent" THEN "development" ELSE config.doc.cur

\* config['database'][environment] inside try ... except KeyError: a missing
\* database key or environment key is a KeyError, turned into
\* DatabaseConfigError; subscripting None is a TypeError, which is not caught.
LookupEnvironment(config, environment) ==
    CASE config.doc.db = "absent" -> "DatabaseConfigError"
      [] config.doc.db = "null" -> "TypeError"
      [] OTHER -> IF environment \in config.doc.envs
                  THEN "returned" ELSE "DatabaseConfigError"

\* DatabaseConfigLoader.get_database_config(environment), which load_config
\* calls and whose exceptions load_config re-raises: get_config(), then (for
\* environment None) get_current_environment(), then the lookup.
GetDatabaseConfig(environment) ==
    /\ cfgobs.loads["db"] < MaxLoads
    /\ LET y == LoadYamlConfig
           miss == db_cache = NoneObj
           raised == miss /\ y.raised
           config == IF miss THEN y.obj ELSE db_cache
           env == IF environment = "None"
                  THEN CurrentEnvironment(config) ELSE environment
       IN  /\ db_cache' = IF raised THEN db_cache ELSE config
           /\ cfgobs' =
                [Logged("db", IF raised THEN -1 ELSE config.id, miss /\ y.read,
                        FALSE)
                 EXCEPT !.last =
                    IF raised
                    THEN [env |-> environment, present |-> FALSE,
                          out |-> "DatabaseConfigError"]
                    ELSE [env |-> env,
                          present |-> config.doc.db = "map"
                                      /\ env \in config.doc.envs,
                          out |-> LookupEnvironment(config, env)]]
    /\ UNCHANGED <<file, cm_cache, pvars>>

InitEnv ==
    /\ cfg \in {c \in Configs : c.max_workers = 1 /\ c.chunk_size = 1
                                /\ c.max_connections = 1 /\ ~c.enable_threading
                                /\ c.threading_keys}
    /\ room_list = <<>>
    /\ tableExists = FALSE
    /\ pool = NoPool
    /\ PipelineIdle
    /\ file \in EnvFileStates
    /\ LoadersNew

NextEnv ==
    \/ \E environment \in EnvNames \cup {"None"} : GetDatabaseConfig(environment)
    \/ GetConfig(TRUE)
    \/ \E f \in EnvFileStates : EditFile(f)

SpecEnv == InitEnv /\ [][NextEnv]_vars

\* ================================================================ claims
IsReturned == mpc = "done" /\ result # "raised"

\* rows committed by the chunks of the parallel insert in progress
RECURSIVE CommittedRows(_)
CommittedRows(S) ==
    IF S = {}
    THEN 0
    ELSE LET i == CHOOSE x \in S : TRUE
         IN  (IF task[i].out = "ok" THEN Len(chunks[i]) ELSE 0)
             + CommittedRows(S \ {i})

\* C1 (as stated): when the database accepts every record (the table exists, no
\* record is rejected, no connection or commit fails), insert_raw_data_threaded
\* returns True, the per-chunk counts sum to N and N rows are committed.
C1_AllAcceptedInsertsAll ==
    (IsReturned /\ op.kind = "par" /\ hist.existedAtStart /\ AllOk(room_list)
        /\ ~hist.fault /\ cfg.threading_keys)
    => /\ result = "True"
       /\ total_inserted = Len(room_list)
       /\ rows - hist.rowsAtStart = Len(room_list)

\* C2: a parallel insert in which some chunk's insert raised returns False, and
\* True is returned exactly when the chunks were submitted and every one
\* succeeded, whatever the order in which they completed and were observed; a
\* call that submitted its chunks returns False only when one of them raised.
C2_FalseIffSomeChunkFailed ==
    (IsReturned /\ op.kind = "par")
    => /\ result \in {"True", "False"}
       /\ (\E i \in Tasks : task[i].out = "exc") => result = "False"
       /\ (result = "True")
            <=> ((\A i \in Tasks : task[i].out = "ok")
                 /\ (cfg.threading_keys \/ Len(room_list) = 0))
       /\ (result = "False" /\ cfg.threading_keys)
            => \E i \in Tasks : task[i].out = "exc"

\* C2 witness: the call returned False with one chunk's success observed before
\* the failure and another chunk's success left unobserved after it.
C2_Witness ==
    /\ IsReturned /\ op.kind = "par" /\ result = "False"
    /\ \E i, j, k \in Tasks :
        /\ task[i].out = "ok" /\ task[i].seen
        /\ task[j].out = "exc" /\ task[j].seen
        /\ task[k].out = "ok" /\ ~task[k].seen

\* C3 (as stated): with the same records and the table in place, and no
\* connection or commit failure in either call, the sequential and the parallel
\* insert add the same number of rows.
C3_SeqParSameRows ==
    (IsReturned /\ {prev.kind, op.kind} = {"seq", "par"} /\ prev.result # "raised"
        /\ prev.existed /\ hist.existedAtStart /\ ~prev.fault /\ ~hist.fault
        /\ AllOk(room_list) /\ cfg.threading_keys)
    => prev.delta = rows - hist.rowsAtStart

\* C4 (as stated): get_connection on a pool whose max_connections connections
\* are all checked out never fails on the spot.
C4_FullPoolNeverFailsAtOnce == ~hist.poolFullRaise

\* C5: every connection a get_connection scope obtained is released exactly
\* once, by the end of the scope; a scope whose body raised had its connection
\* rolled back when it was released, and its error reached the scope's caller.
C5_ReleasedExactlyOnce ==
    /\ \A i \in Tasks :
        /\ task[i].acq <= 1
        /\ task[i].rel = (IF task[i].held THEN task[i].acq - 1 ELSE task[i].acq)
        /\ task[i].pc = "done" => ~task[i].held
        /\ (task[i].rel = 1 /\ task[i].out = "exc") => task[i].relrb >= 1
        /\ (task[i].rel = 1 /\ task[i].relrb >= 1) => task[i].out = "exc"
    /\ pool.created /\ ~pool.closed
        => pool.used = Cardinality({i \in Tasks : task[i].held})
    /\ sconn.acq <= 1
    /\ sconn.rel = (IF sconn.open THEN sconn.acq - 1 ELSE sconn.acq)
    /\ mpc = "done" => ~sconn.open
    /\ (sconn.rel = 1 /\ sconn.exc) => (sconn.relrb >= 1 /\ result = "False")

\* C5 witness: a pooled scope whose body raised has ended: its connection was
\* rolled back and then returned to the pool.
C5_Witness ==
    \E i \in Tasks :
        /\ task[i].pc = "done" /\ task[i].out = "exc"
        /\ task[i].acq = 1 /\ task[i].rel = 1 /\ task[i].relrb >= 1

\* C6 (as stated): no pipeline operation raises to its caller.
C6_NeverRaises == result # "raised"

\* C7: the sequential insert is all-or-nothing: while it runs the table holds
\* none or all of the N records; it returns True with all N committed by one
\* commit, or False with none of them in the table.
C7_SequentialAllOrNothing ==
    op.kind = "seq"
    => /\ rows - hist.rowsAtStart \in {0, Len(room_list)}
       /\ sconn.commits <= 1
       /\ IsReturned =>
            \/ /\ result = "True"
               /\ rows - hist.rowsAtStart = Len(room_list)
               /\ (Len(room_list) > 0 => sconn.commits = 1)
            \/ /\ result = "False"
               /\ rows = hist.rowsAtStart
               /\ sconn.commits = 0

\* C7 witness: a sequential insert whose list holds a rejected record after an
\* accepted one returned False, rolled back, with no row added.
C7_Witness ==
    /\ IsReturned /\ op.kind = "seq" /\ result = "False"
    /\ hist.existedAtStart /\ Len(room_list) >= 2 /\ room_list[1].ok
    /\ sconn.rb = 1 /\ rows = hist.rowsAtStart

\* C8: during and after a parallel insert the table holds exactly the rows of
\* the chunks that committed: no failure of another chunk, and no False
\* result, removes them.
C8_CommittedChunksStay ==
    op.kind = "par" => rows - hist.rowsAtStart = CommittedRows(Tasks)

\* C8 witness: insert_raw_data_threaded returned False and rows of another chunk
\* are in the table.
C8_Witness ==
    /\ IsReturned /\ op.kind = "par" /\ result = "False"
    /\ rows > hist.rowsAtStart
    /\ \E i \in Tasks : task[i].out = "ok"

\* C9: nothing is retried: a chunk is run, and its insert executed, at most
\* once per call; a create_table or sequential insert connects and executes
\* its statements at most once.
C9_NoRetry ==
    /\ \A i \in Tasks : task[i].runs <= 1 /\ task[i].tries <= 1
    /\ sconn.connects <= 1 /\ sconn.tries <= 1

\* C9 witness: a chunk's insert failed after a single attempt and the call
\* has returned False.
C9_Witness ==
    /\ IsReturned /\ op.kind = "par" /\ result = "False"
    /\ \E i \in Tasks : task[i].out = "exc" /\ task[i].tries = 1 /\ task[i].runs = 1

\* the loads of loader l's current run that read the file
RunReads(l) == {p \in DOMAIN cfgobs.runs[l] : cfgobs.runs[l][p].read}

\* C10 (as stated): the loads of a run without forced reload that returned, all
\* returned the identical object, and the file was read at most once in the run.
C10_ReadOnceSameObject ==
    \A l \in Loaders :
        /\ Cardinality(RunReads(l)) <= 1
        /\ \A p, q \in DOMAIN cfgobs.runs[l] :
            (cfgobs.runs[l][p].ret # -1 /\ cfgobs.runs[l][q].ret # -1)
            => cfgobs.runs[l][p].ret = cfgobs.runs[l][q].ret

\* C10 (amended): once a load of a run has returned a configuration object,
\* every later load of the run returns that identical object and does not read
\* the file.
C10_CachedOnceLoaded ==
    \A l \in Loaders : \A p, q \in DOMAIN cfgobs.runs[l] :
        (p < q /\ cfgobs.runs[l][p].ret > 0)
        => /\ cfgobs.runs[l][q].ret = cfgobs.runs[l][p].ret
           /\ ~cfgobs.runs[l][q].read

\* C10 witness: both loaders have served three loads in a row from the object
\* the first of them cached, although the file has changed since.
C10_Witness ==
    /\ \A l \in Loaders :
        /\ Len(cfgobs.runs[l]) >= 3
        /\ cfgobs.runs[l][1].ret > 0
        /\ cfgobs.runs[l][1].read
    /\ ~(file.kind = "valid" /\ file.ver = db_cache.ver)
    /\ ~(file.kind = "valid" /\ file.ver = cm_cache.ver)

\* C11: after a forced reload has succeeded, the cache holds a new object built
\* from the file as it was at reload time, not the one cached before, and every
\* later load returns that object, until the next successful forced reload.
C11_ReloadReplacesCache ==
    cfgobs.reload.id > 0
    => /\ db_cache.id = cfgobs.reload.id
       /\ db_cache.ver = cfgobs.reload.ver
       /\ cfgobs.reload.id # cfgobs.reload.old
       /\ \A p \in DOMAIN cfgobs.runs["db"] :
            cfgobs.runs["db"][p].ret = cfgobs.reload.id

\* C11 witness: a configuration was cached, the file was changed, a forced
\* reload succeeded, and a later load returned the changed configuration.
C11_Witness ==
    /\ cfgobs.reload.id > 0
    /\ cfgobs.reload.old > 0
    /\ cfgobs.reload.oldver # cfgobs.reload.ver
    /\ Len(cfgobs.runs["db"]) >= 1
    /\ cfgobs.runs["db"][1].ret = cfgobs.reload.id
    /\ db_cache.ver = cfgobs.reload.ver

\* C12 (as stated): a get_database_config call for an environment that the
\* loaded configuration's database section does not hold ends with
\* DatabaseConfigError.
C12_UnknownEnvironmentRaisesConfigError ==
    (cfgobs.last.out # "none" /\ ~cfgobs.last.present)
    => cfgobs.last.out = "DatabaseConfigError"

\* C13: create_table is idempotent: a create_table call that meets no database
\* failure returns True whether or not the table was there, the table exists
\* afterwards, and no create_table call changes the table's rows.
C13_CreateTableIdempotent ==
    op.kind = "ddl"
    => /\ rows = hist.rowsAtStart
       /\ hist.existedAtStart => tableExists
       /\ (IsReturned /\ ~hist.fault) => (result = "True" /\ tableExists)

\* C13 witness: a second create_table in a row has returned True on the table
\* the first one made.
C13_Witness ==
    /\ IsReturned /\ op.kind = "ddl" /\ result = "True" /\ hist.existedAtStart
    /\ prev.kind = "ddl" /\ prev.result = "True" /\ ~prev.existed
    /\ tableExists /\ rows = hist.rowsAtStart

\* the concatenation of a list of chunks
RECURSIVE Flatten(_)
Flatten(cs) == IF cs = <<>> THEN <<>> ELSE Head(cs) \o Flatten(Tail(cs))

\* C14: _chunk_data returns ceil(N/C) chunks, none empty, all but the last of
\* exactly C records and the last of at most C, each a contiguous slice, whose
\* concatenation is the input list; the parallel insert works on that list.
C14_ChunksPartitionInput ==
    LET N == Len(room_list)
        C == cfg.chunk_size
        cs == ChunkData(room_list, C)
    IN  /\ Len(cs) * C >= N
        /\ (Len(cs) - 1) * C < N \/ (N = 0 /\ Len(cs) = 0)
        /\ \A k \in DOMAIN cs :
            /\ Len(cs[k]) >= 1 /\ Len(cs[k]) <= C
            /\ k < Len(cs) => Len(cs[k]) = C
            /\ \A j \in DOMAIN cs[k] : cs[k][j] = room_list[(k - 1) * C + j]
        /\ Flatten(cs) = room_list
        /\ (op.kind = "par" /\ N > 0 /\ cfg.threading_keys /\ result # "raised")
            => chunks = cs

\* C14 witness: a parallel insert is working on chunks of which the last is
\* shorter than the chunk size.
C14_Witness ==
    /\ op.kind = "par" /\ mpc = "collect"
    /\ Len(chunks) >= 2
    /\ Len(chunks[Len(chunks)]) < cfg.chunk_size
    /\ Len(chunks[1]) = cfg.chunk_size

\* C15: at any moment of a parallel insert at most max_workers chunks are being
\* inserted, and at most min(max_workers, max_connections) pooled connections
\* are checked out.
C15_BoundedWorkersAndConnections ==
    /\ Cardinality(Running) <= cfg.max_workers
    /\ Cardinality({i \in Tasks : task[i].held})
        <= Min(cfg.max_workers, cfg.max_connections)
    /\ pool.used <= Min(cfg.max_workers, cfg.max_connections)

\* C15 witness: max_workers chunks are being inserted, each on its own pooled
\* connection, while another chunk waits in the executor's queue.
C15_Witness ==
    /\ op.kind = "par"
    /\ cfg.max_workers >= 2
    /\ Cardinality(Running) = cfg.max_workers
    /\ pool.used = cfg.max_workers
    /\ \A i \in Running : task[i].held
    /\ \E i \in Tasks : task[i].pc = "queued"

\* insert_raw_data_threaded has returned, not raised (to
\* insert_data_multi_thread, which may still have its temporary pool to close,
\* or to the pipeline's caller)
ThreadedReturned ==
    /\ op.kind = "par" /\ mpc \in {"closepool", "done"} /\ result # "raised"
    /\ cfg.threading_keys \/ Len(room_list) = 0

\* C16: when insert_raw_data_threaded returns, True or False, every submitted
\* chunk has ended: committed, or failed with nothing committed and its
\* connection (if it got one) rolled back; no chunk holds a connection and
\* none is checked out of the pool.
C16_QuiescentAtReturn ==
    ThreadedReturned
    => /\ result \in {"True", "False"}
       /\ \A i \in Tasks :
            /\ task[i].pc = "done"
            /\ ~task[i].held
            /\ task[i].rel = task[i].acq
            /\ \/ task[i].out = "ok" /\ task[i].count = Len(chunks[i])
               \/ /\ task[i].out = "exc" /\ task[i].count = 0
                  /\ task[i].acq = 1 => task[i].relrb >= 1
       /\ pool.used = 0

\* C16 witness: the call returned False on a failure it observed while other
\* chunks were still unobserved; those have run to their end all the same, and
\* the pool has all its connections back.
C16_Witness ==
    /\ ThreadedReturned /\ result = "False"
    /\ pool.created /\ pool.used = 0
    /\ \E j \in Tasks : task[j].out = "exc" /\ task[j].seen /\ task[j].rel = 1
    /\ \E k \in Tasks : ~task[k].seen /\ task[k].pc = "done" /\ task[k].rel = 1
    /\ Cardinality({k \in Tasks : ~task[k].seen}) >= 2

\* the sum of the counts the chunks of S have returned
RECURSIVE ReturnedCounts(_)
ReturnedCounts(S) ==
    IF S = {}
    THEN 0
    ELSE LET i == CHOOSE x \in S : TRUE
         IN  task[i].count + ReturnedCounts(S \ {i})

\* C17: each chunk is one transaction: a chunk that succeeded returned, and
\* committed, all of its records; a chunk that failed, or has not committed
\* yet, has none of its records in the table, and a failed chunk's connection
\* was rolled back before it went back to the pool.
C17_ChunkIsOneTransaction ==
    op.kind = "par"
    => /\ \A i \in Tasks :
            /\ task[i].count = IF task[i].out = "ok" THEN Len(chunks[i]) ELSE 0
            /\ (task[i].out = "exc" /\ task[i].acq = 1)
                => (task[i].rb >= 1 /\ (task[i].rel = 1 => task[i].relrb >= 1))
            /\ task[i].out = "ok" => task[i].rb = 0
       /\ rows = hist.rowsAtStart + ReturnedCounts(Tasks)

\* C17 witness: a chunk whose first record the database took and whose second
\* it rejected has failed and left nothing in the table, next to a chunk that
\* committed all of its records.
C17_Witness ==
    /\ op.kind = "par"
    /\ \E i, j \in Tasks :
        /\ task[i].pc = "done" /\ task[i].out = "exc" /\ task[i].relrb >= 1
        /\ Len(chunks[i]) >= 2 /\ chunks[i][1].ok /\ ~chunks[i][2].ok
        /\ task[j].pc = "done" /\ task[j].out = "ok"
        /\ rows = hist.rowsAtStart + Len(chunks[j])

\* C18: whatever the order in which the chunks committed, when every chunk has
\* succeeded the call returns True, the counts sum to N and N rows were added.
C18_ResultIndependentOfCommitOrder ==
    (ThreadedReturned /\ \A i \in Tasks : task[i].out = "ok")
    => /\ result = "True"
       /\ total_inserted = Len(room_list)
       /\ rows = hist.rowsAtStart + Len(room_list)

\* C18 witness: a later chunk has committed and released its connection while
\* an earlier chunk, started before it, is about to commit: the later chunk's
\* commit comes first.
C18_Witness ==
    /\ op.kind = "par" /\ tableExists /\ AllOk(room_list)
    /\ cfg.max_workers >= 2
    /\ \E i, j \in Tasks :
        /\ i < j
        /\ task[j].pc = "done" /\ task[j].out = "ok"
        /\ task[i].pc = "body" /\ task[i].held

\* C19: every call of insert_raw_data_threaded that has submitted its chunks
\* eventually returns True or False.
C19_CallTerminates ==
    (op.kind = "par" /\ mpc = "collect")
    ~> (ThreadedReturned /\ result \in {"True", "False"})

\* C19 witness: a call with more chunks than workers and more workers than
\* pooled connections, in which a worker found the pool in use to its limit,
\* has returned.
C19_Witness ==
    /\ ThreadedReturned /\ mpc = "done"
    /\ Len(chunks) > cfg.max_workers
    /\ cfg.max_workers > cfg.max_connections
    /\ hist.poolFullRaise
    /\ \A i \in Tasks : task[i].runs = 1

\* C20: an insert of an empty list, sequential or parallel, returns True in
\* one step that opens no connection, takes none from the pool, leaves the pool
\* as it was (not built if it was not) and leaves the table alone; and nothing
\* of the kind has happened when it has returned.
C20_EmptyInsertTouchesNothing ==
    /\ [][(/\ calls' = calls + 1
           /\ op'.kind \in {"seq", "par"}
           /\ Len(room_list) = 0
           /\ result' # "raised")
          => (/\ result' = "True"
              /\ mpc' = "done"
              /\ pool' = pool
              /\ rows' = rows
              /\ tableExists' = tableExists
              /\ sconn' = NoConn
              /\ task' = <<>>)]_vars
    /\ []((IsReturned /\ op.kind \in {"seq", "par"} /\ Len(room_list) = 0)
          => (/\ result = "True"
              /\ rows = hist.rowsAtStart
              /\ sconn.connects = 0 /\ sconn.acq = 0
              /\ task = <<>>
              /\ pool.used = 0
              /\ ~hist.fault))

\* C20 witness: a parallel insert of an empty list has returned True on a
\* pipeline in threaded mode whose pool was never built, and it still is not.
C20_Witness ==
    /\ IsReturned /\ op.kind = "par" /\ ~op.temp /\ Len(room_list) = 0
    /\ result = "True"
    /\ pool = NoPool
    /\ task = <<>> /\ sconn = NoConn
    /\ rows = hist.rowsAtStart

\* C21: a ConnectionPoolManager constructs its pool at most once, however many
\* workers found no pool at their first test, and every connection a worker
\* holds is checked out of that one pool.
C21_PoolBuiltAtMostOnce ==
    /\ pool.built <= 1
    /\ pool.created <=> pool.built = 1
    /\ (\E i \in Tasks : task[i].held) => pool.created
    /\ (pool.created /\ ~pool.closed)
        => pool.used = Cardinality({i \in Tasks : task[i].held})

\* C21 witness: a worker that found no pool at its first test is at the lock
\* while the pool another worker built in the meantime is already in use.
C21_Witness ==
    /\ op.kind = "par"
    /\ pool.created /\ pool.built = 1
    /\ \E i, j \in Tasks :
        /\ i # j
        /\ task[i].pc = "lock"
        /\ task[j].held

\* C22: when insert_data_multi_thread has run on a temporary pool (threading
\* disabled) and is back at its caller, whatever it returned, the temporary
\* pool is closed if it was ever built and holds no connection, idle or in use.
C22_TemporaryPoolClosed ==
    (op.temp /\ mpc = "done")
    => /\ pool.created => pool.closed
       /\ pool.idle = 0
       /\ pool.used = 0
       /\ \A i \in Tasks : ~task[i].held

\* C22 witness: with threading disabled a forced parallel insert has reported
\* failure of a chunk that held a connection of the temporary pool, and the
\* pool is closed.
C22_Witness ==
    /\ ~cfg.enable_threading /\ op.temp /\ mpc = "done"
    /\ result = "False"
    /\ pool.created /\ pool.closed /\ pool.idle = 0 /\ pool.used = 0
    /\ \E i \in Tasks : task[i].out = "exc" /\ task[i].acq = 1

\* C23: a forced reload that fails raises DatabaseConfigError and leaves the
\* cache as it was (empty if it was empty); when a configuration was cached,
\* the loads after it (until a forced reload returns) give back that object
\* without reading the file.
C23_FailedReloadKeepsCache ==
    cfgobs.failed.hit
    => /\ cfgobs.failed.exc = "DatabaseConfigError"
       /\ cfgobs.runs["db"] = <<>> => db_cache.id = cfgobs.failed.old
       /\ cfgobs.failed.old > 0
            => /\ db_cache.id = cfgobs.failed.old
               /\ \A p \in DOMAIN cfgobs.runs["db"] :
                    /\ cfgobs.runs["db"][p].ret = cfgobs.failed.old
                    /\ ~cfgobs.runs["db"][p].read

\* C23 witness: with a configuration cached, a forced reload failed on a file
\* that is missing, empty or unparsable, and a later load returned the cached
\* object while the file is still in that state.
C23_Witness ==
    /\ cfgobs.failed.hit /\ cfgobs.failed.old > 0
    /\ file.kind # "valid"
    /\ Len(cfgobs.runs["db"]) >= 1
    /\ cfgobs.runs["db"][1].ret = cfgobs.failed.old
    /\ db_cache.id = cfgobs.failed.old

====
